---------------------------- MODULE Spec2Model ----------------------------
(***************************************************************************)
(* Model of the content-rewriting forward proxy in src/后端/Workers.js.      *)
(*                                                                         *)
(* Text is modelled as TLA+ strings and every conversion (percent          *)
(* encoding and decoding, URL parsing and serialisation, the regular       *)
(* expressions of the rewriters) is computed character by character.       *)
(* One behaviour of the model is the handling of one inbound request:      *)
(* the handler keeps no state between requests.                            *)
(***************************************************************************)
EXTENDS Integers, Sequences, FiniteSets, TLC

(***************************************************************************)
(* JavaScript string primitives                                            *)
(***************************************************************************)

\* The printable ASCII characters in code order: U+0020 .. U+005F and
\* U+0061 .. U+007E.  U+0060 cannot be written in a TLA+ string; it and the
\* code points outside ASCII occur in none of the model's inputs.
AsciiLow ==
    " !\"#$%&'()*+,-./0123456789:;<=>?@ABCDEFGHIJKLMNOPQRSTUVWXYZ[\\]^_"
AsciiHigh == "abcdefghijklmnopqrstuvwxyz{|}~"

UpperAlpha == "ABCDEFGHIJKLMNOPQRSTUVWXYZ"
LowerAlpha == "abcdefghijklmnopqrstuvwxyz"
Digits == "0123456789"
HexUpper == "0123456789ABCDEF"
HexLower == "0123456789abcdef"

\* s[i] as a one-character string ("" outside the string).
At(s, i) == IF i >= 1 /\ i <= Len(s) THEN SubSeq(s, i, i) ELSE ""

\* s.substring(i - 1): the suffix that starts at the 1-based position i.
From(s, i) == IF i > Len(s) THEN "" ELSE SubSeq(s, i, Len(s))

\* s.substring(0, i - 1): the prefix that ends before the 1-based position i.
Before(s, i) == IF i <= 1 THEN "" ELSE SubSeq(s, 1, i - 1)

\* The set of the characters of a string.
CharsOf(str) == {SubSeq(str, i, i) : i \in 1..Len(str)}

\* 1-based position of character c in the string str.
PosIn(c, str) == CHOOSE i \in 1..Len(str) : SubSeq(str, i, i) = c

UpperSet == CharsOf(UpperAlpha)
AlphaSet == CharsOf(UpperAlpha) \cup CharsOf(LowerAlpha)
DigitSet == CharsOf(Digits)
HexSet == CharsOf(HexUpper) \cup CharsOf(HexLower)
\* The regular expressions' \s and String.prototype.trim's white space.
SpaceSet == {" ", "\t", "\n", "\r"}
\* ['"] of the regular expressions.
QuoteSet == {"'", "\""}

LowerOf == [c \in UpperSet |-> SubSeq(LowerAlpha, PosIn(c, UpperAlpha), PosIn(c, UpperAlpha))]

LowerChar(c) == IF c \in UpperSet THEN LowerOf[c] ELSE c

RECURSIVE toLowerCase(_)
toLowerCase(s) ==
    IF s = "" THEN "" ELSE LowerChar(At(s, 1)) \o toLowerCase(From(s, 2))

\* s.startsWith(p) at the 1-based position i.
StartsAt(s, p, i) ==
    /\ i + Len(p) - 1 <= Len(s)
    /\ \A k \in 1..Len(p) : At(s, i + k - 1) = At(p, k)

\* The same, ignoring letter case (the i flag of a regular expression).
StartsAtI(s, p, i) ==
    /\ i + Len(p) - 1 <= Len(s)
    /\ \A k \in 1..Len(p) : LowerChar(At(s, i + k - 1)) = LowerChar(At(p, k))

\* The least of a set of positions, 0 for the empty set.
First(hits) == IF hits = {} THEN 0 ELSE CHOOSE k \in hits : \A m \in hits : k <= m

\* s.indexOf(p, i - 1) + 1: the first position >= i where p occurs, 0 when none.
IndexOf(s, p, i) == First({k \in i..Len(s) : StartsAt(s, p, k)})

\* s.lastIndexOf(c, i - 1) + 1 for a character c: the last position <= i that
\* holds c, 0 when none.
RECURSIVE LastIndexOf(_, _, _)
LastIndexOf(s, c, i) ==
    IF i < 1 THEN 0
    ELSE IF At(s, i) = c THEN i
    ELSE LastIndexOf(s, c, i - 1)

includes(s, p) == p = "" \/ IndexOf(s, p, 1) /= 0

\* The first position >= i whose character is in the set stops, else Len(s) + 1.
RECURSIVE ScanTo(_, _, _)
ScanTo(s, stops, i) ==
    IF i > Len(s) \/ At(s, i) \in stops THEN i ELSE ScanTo(s, stops, i + 1)

\* The first position >= i whose character is not white space, else Len(s) + 1.
RECURSIVE SkipSpace(_, _)
SkipSpace(s, i) ==
    IF i > Len(s) \/ At(s, i) \notin SpaceSet THEN i ELSE SkipSpace(s, i + 1)

\* The last position <= i whose character is not white space, else 0.
RECURSIVE SkipSpaceBack(_, _)
SkipSpaceBack(s, i) ==
    IF i < 1 \/ At(s, i) \notin SpaceSet THEN i ELSE SkipSpaceBack(s, i - 1)

\* s.trim()
trim(s) ==
    IF SkipSpaceBack(s, Len(s)) = 0 THEN ""
    ELSE SubSeq(s, SkipSpace(s, 1), SkipSpaceBack(s, Len(s)))

\* s.split(sep) for a one-character separator: a sequence of strings.
\* splitAt is the split of s whose first separator is at position k.
RECURSIVE split(_, _)
RECURSIVE splitAt(_, _, _)
split(s, sep) == splitAt(s, sep, IndexOf(s, sep, 1))

splitAt(s, sep, k) ==
    IF k = 0 THEN <<s>> ELSE <<Before(s, k)>> \o split(From(s, k + 1), sep)

\* parts.join(sep)
RECURSIVE join(_, _)
join(parts, sep) ==
    IF parts = <<>> THEN ""
    ELSE IF Len(parts) = 1 THEN parts[1]
    ELSE parts[1] \o sep \o join(Tail(parts), sep)

\* parts.slice(i - 1)
slice(parts, i) == IF i > Len(parts) THEN <<>> ELSE SubSeq(parts, i, Len(parts))

(***************************************************************************)
(* Percent-encoding (the runtime's encodeURIComponent, decodeURIComponent) *)
(***************************************************************************)

\* The code unit of each character of the model.
OrdOf ==
    [c \in CharsOf(AsciiLow) \cup CharsOf(AsciiHigh) \cup {"\t", "\n", "\r"} |->
        IF c \in CharsOf(AsciiLow) THEN 31 + PosIn(c, AsciiLow)
        ELSE IF c \in CharsOf(AsciiHigh) THEN 96 + PosIn(c, AsciiHigh)
        ELSE IF c = "\t" THEN 9
        ELSE IF c = "\n" THEN 10
        ELSE 13]

\* The character of code n, for the codes of the model's characters.
Chr(n) ==
    IF n >= 32 /\ n <= 95 THEN At(AsciiLow, n - 31)
    ELSE IF n >= 97 /\ n <= 126 THEN At(AsciiHigh, n - 96)
    ELSE IF n = 9 THEN "\t"
    ELSE IF n = 10 THEN "\n"
    ELSE "\r"

\* "%XX" for the byte n.
PctByte(n) == "%" \o At(HexUpper, (n \div 16) + 1) \o At(HexUpper, (n % 16) + 1)

HexVal(c) == IF c \in CharsOf(HexUpper) THEN PosIn(c, HexUpper) - 1 ELSE PosIn(c, HexLower) - 1

\* The characters encodeURIComponent leaves as they are.
UriUnreserved == AlphaSet \cup DigitSet \cup CharsOf("-_.!~*'()")

\* encodeURIComponent(s)
RECURSIVE encodeURIComponent(_)
encodeURIComponent(s) ==
    IF s = "" THEN ""
    ELSE (IF At(s, 1) \in UriUnreserved THEN At(s, 1) ELSE PctByte(OrdOf[At(s, 1)]))
         \o encodeURIComponent(From(s, 2))

\* decodeURIComponent(s): ok is FALSE where the runtime throws URIError (a "%"
\* that two hexadecimal digits do not follow, or a byte that is not the
\* start of a well-formed UTF-8 sequence).
RECURSIVE decodeURIComponent(_)

\* The decoding that starts with the character c and goes on with rest.
decodedCons(c, rest) == [ok |-> rest.ok, value |-> c \o rest.value]

\* The decoding of s, which starts with the escape of the byte n.  An escape
\* of a character outside the model's character set (none of the inputs has
\* one) is kept as it is written.
decodedEscape(s, n) ==
    IF n >= 128 THEN [ok |-> FALSE, value |-> ""]
    ELSE decodedCons(IF n \in {OrdOf[c] : c \in DOMAIN OrdOf} THEN Chr(n) ELSE SubSeq(s, 1, 3),
                     decodeURIComponent(From(s, 4)))

decodeURIComponent(s) ==
    IF s = "" THEN [ok |-> TRUE, value |-> ""]
    ELSE IF At(s, 1) /= "%" THEN decodedCons(At(s, 1), decodeURIComponent(From(s, 2)))
    ELSE IF At(s, 2) \notin HexSet \/ At(s, 3) \notin HexSet THEN [ok |-> FALSE, value |-> ""]
    ELSE decodedEscape(s, 16 * HexVal(At(s, 2)) + HexVal(At(s, 3)))

(***************************************************************************)
(* The runtime's URL class: new URL(input) and new URL(input, base).       *)
(* A URL is a record; ok is FALSE where the constructor throws TypeError.  *)
(* query and fragment carry their "?" and "#" and are "" when absent.      *)
(* Hosts are domain names (no IP literals, no IDNA or percent-decoding).   *)
(***************************************************************************)

Failure ==
    [ok |-> FALSE, scheme |-> "", userinfo |-> "", host |-> "", port |-> "",
     path |-> "", query |-> "", fragment |-> "", opaque |-> FALSE]

\* The absent base of new URL(input).
NoBase == Failure

SpecialSchemes == {"http", "https", "ws", "wss", "ftp"}

DefaultPort(scheme) ==
    IF scheme \in {"http", "ws"} THEN "80"
    ELSE IF scheme \in {"https", "wss"} THEN "443"
    ELSE IF scheme = "ftp" THEN "21"
    ELSE ""

\* Percent-encode sets of the URL standard (over the model's characters).
PathPercentEncodeSet == CharsOf(" \"#<>?{}")
SpecialQueryPercentEncodeSet == CharsOf(" \"#<>'")
QueryPercentEncodeSet == CharsOf(" \"#<>")
FragmentPercentEncodeSet == CharsOf(" \"<>")
ForbiddenHostCodePoints == CharsOf(" #/:<>?@[\\]^|%")
\* The characters of a scheme after its first letter.
SchemeChars == AlphaSet \cup DigitSet \cup CharsOf("+-.")

RECURSIVE PercentEncode(_, _)
PercentEncode(s, set) ==
    IF s = "" THEN ""
    ELSE (IF At(s, 1) \in set THEN PctByte(OrdOf[At(s, 1)]) ELSE At(s, 1))
         \o PercentEncode(From(s, 2), set)

\* The input with ASCII tab and newline removed.
RECURSIVE RemoveTabNewline(_)
RemoveTabNewline(s) ==
    IF s = "" THEN ""
    ELSE (IF At(s, 1) \in {"\t", "\n", "\r"} THEN "" ELSE At(s, 1))
         \o RemoveTabNewline(From(s, 2))

\* "\" is "/" in a special URL.
RECURSIVE BackslashToSlash(_)
BackslashToSlash(s) ==
    IF s = "" THEN ""
    ELSE (IF At(s, 1) = "\\" THEN "/" ELSE At(s, 1)) \o BackslashToSlash(From(s, 2))

\* The position of the ":" that ends a scheme at the start of s, 0 when none:
\* k is the position of the first ":".
SchemeEndAt(s, k) ==
    IF /\ At(s, 1) \in AlphaSet
       /\ k <= Len(s)
       /\ \A i \in 2..(k - 1) : At(s, i) \in SchemeChars
    THEN k ELSE 0

SchemeEnd(s) == SchemeEndAt(s, ScanTo(s, {":"}, 1))

\* input = main [ "?" query ] [ "#" fragment ]: f is the position of the
\* first "#" of r and q the position of the first "?" before it, 0 when none.
SplitQuery(beforeF, q, hasFragment, fragment) ==
    [main |-> IF q = 0 THEN beforeF ELSE Before(beforeF, q),
     hasQuery |-> q /= 0,
     query |-> IF q = 0 THEN "" ELSE From(beforeF, q + 1),
     hasFragment |-> hasFragment,
     fragment |-> fragment]

SplitFragment(r, f) ==
    SplitQuery(IF f = 0 THEN r ELSE Before(r, f),
               IndexOf(IF f = 0 THEN r ELSE Before(r, f), "?", 1),
               f /= 0, IF f = 0 THEN "" ELSE From(r, f + 1))

SplitRef(r) == SplitFragment(r, IndexOf(r, "#", 1))

IsSingleDot(seg) == toLowerCase(seg) \in {".", "%2e"}
IsDoubleDot(seg) == toLowerCase(seg) \in {"..", ".%2e", "%2e.", "%2e%2e"}

\* The sequence q without its last element.
Shorten(q) == IF q = <<>> THEN <<>> ELSE SubSeq(q, 1, Len(q) - 1)

\* The path state: the segments segs appended to the path stack.
RECURSIVE PathWalk(_, _)
PathWalk(stack, segs) ==
    IF segs = <<>> THEN stack
    ELSE IF IsDoubleDot(Head(segs))
    THEN IF Len(segs) = 1 THEN Append(Shorten(stack), "")
         ELSE PathWalk(Shorten(stack), Tail(segs))
    ELSE IF IsSingleDot(Head(segs))
    THEN IF Len(segs) = 1 THEN Append(stack, "") ELSE PathWalk(stack, Tail(segs))
    ELSE PathWalk(Append(stack, PercentEncode(Head(segs), PathPercentEncodeSet)), Tail(segs))

\* The serialised path of path text p ("" or "/...") walked from stack.
WalkedPath(stack, p) == "/" \o join(PathWalk(stack, split(p, "/")), "/")

RECURSIVE ParseInt(_)
ParseInt(digits) ==
    IF digits = "" THEN 0
    ELSE 10 * ParseInt(Before(digits, Len(digits))) + (PosIn(At(digits, Len(digits)), Digits) - 1)

RECURSIVE StripZeros(_)
StripZeros(digits) ==
    IF Len(digits) > 1 /\ At(digits, 1) = "0" THEN StripZeros(From(digits, 2)) ELSE digits

EncodedQuery(scheme, ref) ==
    IF ref.hasQuery
    THEN "?" \o PercentEncode(ref.query,
                  IF scheme \in SpecialSchemes THEN SpecialQueryPercentEncodeSet
                  ELSE QueryPercentEncodeSet)
    ELSE ""

EncodedFragment(ref) ==
    IF ref.hasFragment THEN "#" \o PercentEncode(ref.fragment, FragmentPercentEncodeSet) ELSE ""

\* The first position >= i of s that holds no "/".
RECURSIVE SkipSlashes(_, _)
SkipSlashes(s, i) ==
    IF i > Len(s) \/ At(s, i) /= "/" THEN i ELSE SkipSlashes(s, i + 1)

\* The host state: a host is a non-empty domain name.
ValidHost(host) ==
    /\ host /= ""
    /\ \A i \in 1..Len(host) : At(host, i) \notin ForbiddenHostCodePoints

\* The port state: decimal digits, at most 65535.
ValidPort(portText) ==
    /\ \A i \in 1..Len(portText) : At(portText, i) \in DigitSet
    /\ Len(StripZeros(portText)) <= 5
    /\ ParseInt(StripZeros(portText)) <= 65535

\* The port of the URL record: "" for no port and for the scheme's default.
PortOf(scheme, portText) ==
    IF portText = "" \/ StripZeros(portText) = DefaultPort(scheme) THEN ""
    ELSE StripZeros(portText)

\* The URL of a special scheme, from the parts of its authority and the
\* path text p that follows the authority's "/".
SpecialURL(scheme, userinfo, host, portText, p, ref) ==
    IF ~ValidHost(host) \/ ~ValidPort(portText) THEN Failure
    ELSE [ok |-> TRUE, scheme |-> scheme, userinfo |-> userinfo,
          host |-> toLowerCase(host), port |-> PortOf(scheme, portText),
          path |-> WalkedPath(<<>>, p),
          query |-> EncodedQuery(scheme, ref),
          fragment |-> EncodedFragment(ref), opaque |-> FALSE]

\* host [ ":" port ]: colon is the position of the first ":", 0 when none.
HostAndPort(scheme, userinfo, hostport, colon, p, ref) ==
    SpecialURL(scheme, userinfo,
               IF colon = 0 THEN hostport ELSE Before(hostport, colon),
               IF colon = 0 THEN "" ELSE From(hostport, colon + 1), p, ref)

\* [ userinfo "@" ] hostport: at is the position of the last "@", 0 when none.
\* The userinfo is kept with its "@".
UserinfoAndHost(scheme, auth, at, p, ref) ==
    HostAndPort(scheme, Before(auth, at + 1), From(auth, at + 1),
                IndexOf(From(auth, at + 1), ":", 1), p, ref)

Authority(scheme, auth, p, ref) ==
    UserinfoAndHost(scheme, auth, LastIndexOf(auth, "@", Len(auth)), p, ref)

\* authority [ "/" path ]: slash is the position of the first "/", 0 when none.
AuthorityAndPath(scheme, rest, slash, ref) ==
    Authority(scheme, IF slash = 0 THEN rest ELSE Before(rest, slash),
              IF slash = 0 THEN "" ELSE From(rest, slash + 1), ref)

\* The authority and path states of a special URL: rest is the text after the
\* slashes that follow "scheme:" (or the "//" of a scheme-relative reference).
ParseAuthority(scheme, rest, ref) == AuthorityAndPath(scheme, rest, IndexOf(rest, "/", 1), ref)

\* The directory of the base's path, as segments.
BaseDir(base) == Shorten(split(From(base.path, 2), "/"))

\* The relative states: the reference ref, whose main part (with "\" read as
\* "/") is main, resolved against base.
RelativeRef(ref, main, base) ==
    IF StartsAt(main, "//", 1)
    THEN ParseAuthority(base.scheme, From(main, SkipSlashes(main, 1)), ref)
    ELSE [base EXCEPT
            !.path = IF main = "" THEN base.path
                     ELSE IF At(main, 1) = "/" THEN WalkedPath(<<>>, From(main, 2))
                     ELSE WalkedPath(BaseDir(base), main),
            !.query = IF main = "" /\ ~ref.hasQuery THEN base.query
                      ELSE EncodedQuery(base.scheme, ref),
            !.fragment = EncodedFragment(ref)]

\* text (without a scheme) resolved against base.
ParseRelative(text, base) ==
    RelativeRef(SplitRef(text), BackslashToSlash(SplitRef(text).main), base)

\* The text s, without a scheme: it needs a base.
ParseNoScheme(s, base) ==
    IF ~base.ok THEN Failure
    ELSE IF base.opaque
    THEN IF At(s, 1) = "#"
         THEN [base EXCEPT !.fragment = EncodedFragment(SplitRef(s))]
         ELSE Failure
    ELSE ParseRelative(s, base)

\* A URL of a special scheme: rest is the text after "scheme:".
SpecialRef(scheme, rest, ref, main, base) ==
    IF base.ok /\ base.scheme = scheme /\ ~StartsAt(main, "//", 1)
    THEN ParseRelative(rest, base)
    ELSE ParseAuthority(scheme, From(main, SkipSlashes(main, 1)), ref)

\* A URL of another scheme: its path is opaque.
ParseOpaque(scheme, ref) ==
    [ok |-> TRUE, scheme |-> scheme, userinfo |-> "", host |-> "", port |-> "",
     path |-> ref.main, query |-> EncodedQuery(scheme, ref),
     fragment |-> EncodedFragment(ref), opaque |-> TRUE]

ParseWithScheme(scheme, rest, base) ==
    IF scheme \in SpecialSchemes
    THEN SpecialRef(scheme, rest, SplitRef(rest), BackslashToSlash(SplitRef(rest).main), base)
    ELSE ParseOpaque(scheme, SplitRef(rest))

\* The scheme state: k is the position of the ":" that ends the scheme.
ParseAt(s, k, base) ==
    IF k = 0 THEN ParseNoScheme(s, base)
    ELSE ParseWithScheme(toLowerCase(Before(s, k)), From(s, k + 1), base)

\* new URL(input, base): base is a URL record, or NoBase.
ParseURL(input, base) ==
    ParseAt(trim(RemoveTabNewline(input)), SchemeEnd(trim(RemoveTabNewline(input))), base)

\* url.host
Host(u) == u.host \o (IF u.port = "" THEN "" ELSE ":" \o u.port)

\* url.protocol
Protocol(u) == u.scheme \o ":"

\* url.origin
Origin(u) == IF u.opaque THEN "null" ELSE u.scheme \o "://" \o Host(u)

\* url.href, url.toString()
Href(u) ==
    IF u.opaque THEN u.scheme \o ":" \o u.path \o u.query \o u.fragment
    ELSE u.scheme \o "://" \o u.userinfo \o Host(u) \o u.path \o u.query \o u.fragment

(***************************************************************************)
(* Header rewriting                                                        *)
(***************************************************************************)

\* /Domain=[^;]+/i at position b of s: the end (exclusive) of the match, 0
\* when there is none.  [^;]+ takes one character at least.
DomainAt(s, b) ==
    IF /\ StartsAtI(s, "Domain=", b)
       /\ ScanTo(s, {";"}, b + Len("Domain=")) > b + Len("Domain=")
    THEN ScanTo(s, {";"}, b + Len("Domain="))
    ELSE 0

\* The end (exclusive) of a match of /;?\s*Domain=[^;]+/i that starts at
\* position i of s, 0 when there is none.
DomainMatchEnd(s, i) == DomainAt(s, SkipSpace(s, IF At(s, i) = ";" THEN i + 1 ELSE i))

\* The start of the leftmost match at a position >= i, 0 when there is none.
DomainMatchStart(s, i) == First({k \in i..Len(s) : DomainMatchEnd(s, k) /= 0})

\* s with the match that starts at position i removed (i = 0: no match).
RemoveMatch(s, i) == IF i = 0 THEN s ELSE Before(s, i) \o From(s, DomainMatchEnd(s, i))

\* cookieStr.replace(/;?\s*Domain=[^;]+/i, ''): the regular expression has no
\* g flag, so the leftmost match alone is removed.
rewriteSetCookie(cookieStr) == RemoveMatch(cookieStr, DomainMatchStart(cookieStr, 1))

\* /^https?:\/\//i.test(s)
IsHttpUrl(s) == StartsAtI(s, "http://", 1) \/ StartsAtI(s, "https://", 1)

\* The body of rewriteLocation, absoluteUrl being new URL(location, target):
\* the catch returns location.
proxiedLocation(location, absoluteUrl, proxyOrigin) ==
    IF absoluteUrl.ok
    THEN proxyOrigin \o "/proxy/" \o encodeURIComponent(Href(absoluteUrl))
    ELSE location

rewriteLocation(location, target, proxyOrigin) ==
    proxiedLocation(location, ParseURL(location, target), proxyOrigin)

(***************************************************************************)
(* The element rewriter.  A document is the sequence of tokens the         *)
(* runtime's HTMLRewriter sees: text, start tags with their attributes,    *)
(* end tags.  HtmlText is the document as text.                            *)
(***************************************************************************)

Text(t) == [kind |-> "text", tag |-> "", attrs |-> <<>>, text |-> t]
StartTag(tag, attrs) == [kind |-> "start", tag |-> tag, attrs |-> attrs, text |-> ""]
EndTag(tag) == [kind |-> "end", tag |-> tag, attrs |-> <<>>, text |-> ""]
Attr(name, value) == [name |-> name, value |-> value]

RECURSIVE AttrsText(_)
AttrsText(attrs) ==
    IF attrs = <<>> THEN ""
    ELSE " " \o attrs[1].name \o "=\"" \o attrs[1].value \o "\"" \o AttrsText(Tail(attrs))

TokenText(t) ==
    IF t.kind = "text" THEN t.text
    ELSE IF t.kind = "start" THEN "<" \o t.tag \o AttrsText(t.attrs) \o ">"
    ELSE "</" \o t.tag \o ">"

RECURSIVE HtmlText(_)
HtmlText(doc) == IF doc = <<>> THEN "" ELSE TokenText(doc[1]) \o HtmlText(Tail(doc))

hasAttribute(el, attrName) == \E i \in 1..Len(el.attrs) : el.attrs[i].name = attrName

\* el.getAttribute(attrName), of an element that has the attribute.
getAttribute(el, attrName) ==
    el.attrs[CHOOSE i \in 1..Len(el.attrs) :
                /\ el.attrs[i].name = attrName
                /\ \A j \in 1..(i - 1) : el.attrs[j].name /= attrName].value

\* el.setAttribute(attrName, value), of an element that has the attribute.
setAttribute(el, attrName, value) ==
    [el EXCEPT !.attrs = [i \in 1..Len(el.attrs) |->
        IF el.attrs[i].name = attrName THEN Attr(attrName, value) ELSE el.attrs[i]]]

\* proxiedAttributeValue without the test of the scheme (line 176).
proxiedAnyScheme(attrValue, url) ==
    IF ~url.ok THEN attrValue ELSE "/proxy/" \o encodeURIComponent(Href(url))

\* The body of rewriteAttributeValue, url being new URL(attrValue, target):
\* the catch returns attrValue.
proxiedAttributeValue(attrValue, url) ==
    IF ~url.ok THEN attrValue
    ELSE IF ~IsHttpUrl(Href(url)) THEN attrValue
    ELSE "/proxy/" \o encodeURIComponent(Href(url))

rewriteAttributeValue(attrValue, target) ==
    proxiedAttributeValue(attrValue, ParseURL(attrValue, target))

\* getAttribute gives null for an absent attribute; null and "" are falsy.
rewriteAttr(el, attrName, target) ==
    IF hasAttribute(el, attrName) /\ getAttribute(el, attrName) /= ""
    THEN setAttribute(el, attrName, rewriteAttributeValue(getAttribute(el, attrName), target))
    ELSE el

\* The handler of 'meta[http-equiv="refresh"]', parts being content.split(';')
\* and urlPart being parts[1].trim().
rewriteRefreshUrl(el, parts, urlPart, target) ==
    IF StartsAt(toLowerCase(urlPart), "url=", 1)
    THEN setAttribute(el, "content",
             parts[1] \o "; url=" \o rewriteAttributeValue(From(urlPart, 5), target))
    ELSE el

rewriteRefreshParts(el, parts, target) ==
    IF Len(parts) = 2 THEN rewriteRefreshUrl(el, parts, trim(parts[2]), target) ELSE el

rewriteMetaRefresh(el, target) ==
    IF hasAttribute(el, "content") /\ getAttribute(el, "content") /= ""
    THEN rewriteRefreshParts(el, split(getAttribute(el, "content"), ";"), target)
    ELSE el

\* The (tag, attribute) pairs of the .on(tag, ...) handlers.
RewriteRules ==
    {<<"a", "href">>, <<"img", "src">>, <<"link", "href">>, <<"script", "src">>,
     <<"form", "action">>, <<"base", "href">>}

\* The handler that matches one token.
rewriteElement(t, target) ==
    IF t.kind /= "start" THEN t
    ELSE IF \E r \in RewriteRules : r[1] = t.tag
    THEN rewriteAttr(t, (CHOOSE r \in RewriteRules : r[1] = t.tag)[2], target)
    ELSE IF /\ t.tag = "meta"
            /\ hasAttribute(t, "http-equiv")
            /\ getAttribute(t, "http-equiv") = "refresh"
    THEN rewriteMetaRefresh(t, target)
    ELSE t

applyHTMLRewriter(doc, target) == [i \in 1..Len(doc) |-> rewriteElement(doc[i], target)]

(***************************************************************************)
(* The inline script patcher                                               *)
(***************************************************************************)

\* The four call shapes of absolutePatterns and of relativePatterns: the
\* literal text, then \s*, then the symbol, then \s*.
NavigationShapes ==
    <<[lit |-> "window.location", sym |-> "="],
      [lit |-> "location.href", sym |-> "="],
      [lit |-> "window.open", sym |-> "("],
      [lit |-> "document.location", sym |-> "="]>>

\* The patterns in the order they are applied: absolutePatterns, then
\* relativePatterns.
NavigationPatterns ==
    [k \in 1..(2 * Len(NavigationShapes)) |->
        IF k <= Len(NavigationShapes)
        THEN [lit |-> NavigationShapes[k].lit, sym |-> NavigationShapes[k].sym,
              absolute |-> TRUE]
        ELSE [lit |-> NavigationShapes[k - Len(NavigationShapes)].lit,
              sym |-> NavigationShapes[k - Len(NavigationShapes)].sym,
              absolute |-> FALSE]]

\* The URL group after the quote at position q: https?:\/\/[^'"]+ or \/[^'"]+,
\* v being the position after "http://", "https://" or "/" (v = 0: the
\* literal does not start as the pattern asks); [^'"]+ takes one character
\* at least.
NavUrl(s, q, v) ==
    IF v /= 0 /\ ScanTo(s, QuoteSet, v) > v THEN [q |-> q, e |-> ScanTo(s, QuoteSet, v)]
    ELSE [q |-> 0, e |-> 0]

NavQuote(s, q, p) ==
    IF At(s, q) \notin QuoteSet THEN [q |-> 0, e |-> 0]
    ELSE NavUrl(s, q,
                IF p.absolute
                THEN IF StartsAtI(s, "http://", q + 1) THEN q + 1 + Len("http://")
                     ELSE IF StartsAtI(s, "https://", q + 1) THEN q + 1 + Len("https://")
                     ELSE 0
                ELSE IF At(s, q + 1) = "/" THEN q + 2 ELSE 0)

\* The symbol at position b, then \s*, then the quote.
NavSymbol(s, b, p) ==
    IF At(s, b) /= p.sym THEN [q |-> 0, e |-> 0] ELSE NavQuote(s, SkipSpace(s, b + 1), p)

\* A match of /(lit\s*sym\s*)(['"])(https?:\/\/[^'"]+)/gi (absolute) or of
\* /(lit\s*sym\s*)(['"])(\/[^'"]+)/gi at position i of s: q is the position
\* of the quote and e the end (exclusive) of the match; e = 0 when none.
NavMatch(s, i, p) ==
    IF ~StartsAtI(s, p.lit, i) THEN [q |-> 0, e |-> 0]
    ELSE NavSymbol(s, SkipSpace(s, i + Len(p.lit)), p)

\* The replacement function of the absolute patterns.
absoluteReplacement(prefix, quote, origUrl, proxyOrigin) ==
    prefix \o quote \o proxyOrigin \o "/proxy/" \o encodeURIComponent(origUrl) \o quote

\* The replacement function of the relative patterns, absoluteUrl being
\* new URL(origPath, target): the catch returns the match.
relativeProxied(prefix, quote, origPath, absoluteUrl, proxyOrigin) ==
    IF absoluteUrl.ok
    THEN prefix \o quote \o proxyOrigin \o "/proxy/"
                \o encodeURIComponent(Href(absoluteUrl)) \o quote
    ELSE prefix \o quote \o origPath

relativeReplacement(prefix, quote, origPath, target, proxyOrigin) ==
    relativeProxied(prefix, quote, origPath, ParseURL(origPath, target), proxyOrigin)

\* The replacement of the match m of pattern p that starts at position i.
replacement(s, i, m, p, target, proxyOrigin) ==
    IF p.absolute
    THEN absoluteReplacement(SubSeq(s, i, m.q - 1), At(s, m.q),
                             SubSeq(s, m.q + 1, m.e - 1), proxyOrigin)
    ELSE relativeReplacement(SubSeq(s, i, m.q - 1), At(s, m.q),
                             SubSeq(s, m.q + 1, m.e - 1), target, proxyOrigin)

\* The start of the leftmost match of p at a position >= i, 0 when none.
NavMatchStart(s, i, p) == First({k \in i..Len(s) : NavMatch(s, k, p).e /= 0})

\* html.replace(p, fn) for one global pattern, from position from on: the
\* matches are found left to right in the original text, without overlap.
RECURSIVE replaceNav(_, _, _, _, _)

\* The text from position from on, its leftmost match m starting at i.
replaceMatch(s, from, i, m, p, target, proxyOrigin) ==
    SubSeq(s, from, i - 1)
    \o replacement(s, i, m, p, target, proxyOrigin)
    \o replaceNav(s, m.e, p, target, proxyOrigin)

replaceFrom(s, from, i, p, target, proxyOrigin) ==
    IF i = 0 THEN From(s, from)
    ELSE replaceMatch(s, from, i, NavMatch(s, i, p), p, target, proxyOrigin)

replaceNav(s, from, p, target, proxyOrigin) ==
    replaceFrom(s, from, NavMatchStart(s, from, p), p, target, proxyOrigin)

\* for (const p of absolutePatterns) html = html.replace(p, ...), then the same
\* for relativePatterns: the patterns from the k-th on.
RECURSIVE replacePatterns(_, _, _, _)
replacePatterns(html, k, target, proxyOrigin) ==
    IF k > Len(NavigationPatterns) THEN html
    ELSE replacePatterns(replaceNav(html, 1, NavigationPatterns[k], target, proxyOrigin),
                         k + 1, target, proxyOrigin)

rewriteInlineJS(html, target, proxyOrigin) == replacePatterns(html, 1, target, proxyOrigin)

(***************************************************************************)
(* The environment spoofer                                                 *)
(***************************************************************************)

\* The injected script.  The four interpolated values are kept; the fixed
\* JavaScript between them is abbreviated to the names it defines.
fakeEnvScript(fakeHost, fakeOrigin, fakeProtocol, proxyOrigin) ==
    "\n<script>\n(function(){\n"
    \o "  hostname: \"" \o fakeHost \o "\"; host: \"" \o fakeHost \o "\";\n"
    \o "  origin: \"" \o fakeOrigin \o "\"; protocol: \"" \o fakeProtocol \o "\";\n"
    \o "  domain: \"" \o fakeHost \o "\"; cookie;\n"
    \o "  assign, replace: \"" \o proxyOrigin \o "/proxy/\" + encodeURIComponent(url);\n"
    \o "  pushState, replaceState: \"/proxy/\" + encodeURIComponent(url);\n"
    \o "})();\n</script>\n  "

\* html.replace(/<\/head>/i, x): the leftmost match at position i is replaced
\* (i = 0: there is no match and the text is returned as it is).
replaceHead(html, i, x) ==
    IF i = 0 THEN html ELSE Before(html, i) \o x \o From(html, i + Len("</head>"))

\* The position of the leftmost match of /<\/head>/i at a position >= i.
HeadEndStart(html, i) == First({k \in i..Len(html) : StartsAtI(html, "</head>", k)})

\* replaced || (script + html): the empty string alone is falsy.
orPrepended(replaced, script, html) == IF replaced /= "" THEN replaced ELSE script \o html

injectScript(html, script) ==
    orPrepended(replaceHead(html, HeadEndStart(html, 1), script \o "</head>"), script, html)

\* html.replace(/<\/head>/i, script + '</head>') || (script + html)
injectFakeEnvScript(html, target, proxyOrigin) ==
    injectScript(html, fakeEnvScript(Host(target), Origin(target), Protocol(target), proxyOrigin))

(***************************************************************************)
(* Inputs: the inbound requests and the upstream responses                 *)
(***************************************************************************)

\* At most this many Set-Cookie entries in one upstream response.
MaxCookies == 2

\* The origin the proxy is served from.
ProxyOrigin == "https://p.io"

\* Absolute http(s) URLs in serialised form, as url.toString() gives them.
SerialisedUrls ==
    {"https://example.com/a/",
     "http://example.com:8080/x?y=1&z=%2F#f",
     "https://example.com/it's(1)!~*"}

\* Absolute http(s) URLs, also as a page may write them.
AbsoluteUrls == SerialisedUrls \cup {"https://example.com", "HTTPS://Example.COM:443/A/../c"}

\* Encode(u) of the spec: the proxy path of the absolute URL u.
ProxyPath(u) == "/proxy/" \o encodeURIComponent(u)

EncodedRequestUrls == {ProxyOrigin \o ProxyPath(u) : u \in AbsoluteUrls}

\* Inbound URLs whose first path segment is not "proxy".
NonProxyRequestUrls ==
    {ProxyOrigin \o "/other/thing",
     ProxyOrigin \o "/",
     ProxyOrigin,
     ProxyOrigin \o "/proxyx/https%3A%2F%2Fexample.com",
     ProxyOrigin \o "/Proxy/example.com",
     ProxyOrigin \o "//proxy/example.com"}

\* Inbound URLs under /proxy that do not hold the encoding of an absolute URL.
OtherProxyRequestUrls ==
    {ProxyOrigin \o "/proxy",
     ProxyOrigin \o "/proxy/",
     ProxyOrigin \o "/proxy/example.com/a/b?q=1",
     ProxyOrigin \o "/x/../proxy/example.com",
     ProxyOrigin \o "/proxy/%E0%A4%A",
     ProxyOrigin \o "/proxy/http%3A%2F%2F",
     ProxyOrigin \o "/proxy/a%20b"}

\* A request: body is <<>> for a null body.
Request(url, method, body) == [url |-> url, method |-> method, body |-> body]

Requests ==
    {Request(u, "GET", <<>>) :
        u \in EncodedRequestUrls \cup NonProxyRequestUrls \cup OtherProxyRequestUrls}
    \cup {Request(ProxyOrigin \o ProxyPath("https://example.com/a/"), "POST", <<"k=v">>),
          Request(ProxyOrigin \o ProxyPath("https://example.com/a/"), "HEAD", <<>>),
          Request(ProxyOrigin \o "/other/thing", "POST", <<"k=v">>)}

SecurityHeaders == {"Content-Security-Policy", "X-Frame-Options", "X-Content-Type-Options"}

\* Statuses whose response the Response constructor refuses to give a body.
NullBodyStatuses == {101, 204, 205, 304}

CookieValues ==
    {"sid=1; Path=/; HttpOnly; SameSite=Lax",
     "a=1; Domain=example.com; Path=/; Secure",
     "b=2; Expires=Wed, 21 Oct 2026 07:28:00 GMT;domain=.example.com",
     "c=3; Domain=example.com; Path=/; Domain=www.example.com",
     "mydomain=1; Path=/"}

\* The sequences over S of length at most n.
RECURSIVE SeqsUpTo(_, _)
SeqsUpTo(S, n) ==
    IF n = 0 THEN {<<>>}
    ELSE SeqsUpTo(S, n - 1)
         \cup {Append(q, x) : q \in {r \in SeqsUpTo(S, n - 1) : Len(r) = n - 1}, x \in S}

CookieLists == SeqsUpTo(CookieValues, MaxCookies)

\* Location values: <<>> is an absent header; "//:80" does not resolve.
Locations == {<<>>, <<"/login?next=%2F">>, <<"https://other.net/x">>, <<"../up">>, <<"//:80">>}

ContentTypes ==
    {<<>>, <<"text/html; charset=utf-8">>, <<"application/json">>, <<"Text/HTML">>}

HeadDoc ==
    <<StartTag("html", <<>>), StartTag("head", <<>>),
      StartTag("link", <<Attr("rel", "stylesheet"), Attr("href", "style.css")>>),
      StartTag("base", <<Attr("href", "https://")>>),
      EndTag("head"), StartTag("body", <<>>),
      StartTag("a", <<Attr("href", "/b/c")>>), Text("c"), EndTag("a"),
      StartTag("img", <<Attr("src", "//cdn.example.com/x")>>),
      StartTag("a", <<Attr("href", "mailto:a@b.com")>>), Text("m"), EndTag("a"),
      EndTag("body"), EndTag("html")>>

NoHeadDoc ==
    <<StartTag("body", <<>>),
      StartTag("a", <<Attr("href", "")>>), Text("self"), EndTag("a"),
      StartTag("a", <<Attr("name", "top")>>), EndTag("a"),
      StartTag("form", <<Attr("action", "?q=1")>>), EndTag("form"),
      StartTag("script", <<Attr("src", "javascript:void(0)")>>), EndTag("script"),
      StartTag("div", <<Attr("href", "/not-a-rule")>>), EndTag("div"),
      EndTag("body")>>

ScriptDoc ==
    <<StartTag("HEAD", <<>>),
      StartTag("meta", <<Attr("http-equiv", "refresh"),
                         Attr("content", "5;url=https://example.com/x")>>),
      StartTag("script", <<>>),
      Text("window.location = \"https://example.com/x\"; location.href='/y';"),
      EndTag("script"), EndTag("HEAD"),
      StartTag("script", <<>>),
      Text("window.open( 'http://example.com/w' ); document.location = \"/\"; go(\"/z\");"),
      EndTag("script")>>

LiteralDoc == <<Text("window.location = \"/y\"")>>

AbsoluteLiteralDoc == <<Text("window.location = \"https://example.com/x\"")>>

JsonDoc == <<Text("{\"next\": \"/b/c\", \"js\": \"location.href='/y'\", \"t\": \"</head>\"}")>>

Docs == {<<>>, HeadDoc, NoHeadDoc, ScriptDoc, LiteralDoc, AbsoluteLiteralDoc, JsonDoc}

\* An upstream response: headers is the set of names of the other headers.
Upstream(status, contentType, setCookie, location, headers, doc) ==
    [status |-> status, contentType |-> contentType, setCookie |-> setCookie,
     location |-> location, headers |-> headers, doc |-> doc]

UpstreamResponses ==
    {Upstream(st, ct, <<"a=1; Domain=example.com; Path=/; Secure">>, <<>>, hs,
              IF st \in NullBodyStatuses THEN <<>> ELSE HeadDoc) :
        st \in {200, 301, 304, 404, 500}, ct \in ContentTypes,
        hs \in {{}, SecurityHeaders \cup {"Strict-Transport-Security"}}}
    \cup {Upstream(200, ct, cs, <<>>, SecurityHeaders, NoHeadDoc) :
            ct \in {<<"text/html; charset=utf-8">>, <<"application/json">>},
            cs \in CookieLists}
    \cup {Upstream(st, ct, <<>>, loc, {"X-Frame-Options"},
                   IF st \in NullBodyStatuses THEN <<>> ELSE LiteralDoc) :
            st \in {200, 302, 304}, loc \in Locations,
            ct \in {<<"text/html; charset=utf-8">>, <<"application/json">>}}
    \cup {Upstream(200, ct, <<>>, <<>>, {}, doc) : ct \in ContentTypes, doc \in Docs}

(***************************************************************************)
(* The request handler                                                     *)
(***************************************************************************)

VARIABLES
    pc,         \* where handleRequest stands: idle, fetching, reading, done
    request,    \* the inbound request
    targetUrl,  \* the decoded target, as text
    fetches,    \* the outbound requests issued, in order
    upstream,   \* the upstream response, once fetch has resolved
    html,       \* the handler's html stage by stage, and the rewritten elements
    bodyUsed,   \* whether the upstream body was materialised as text
    response    \* the response handleRequest returns

vars == <<pc, request, targetUrl, fetches, upstream, html, bodyUsed, response>>

NoRequest == Request("", "", <<>>)
NoUpstream == Upstream(0, <<>>, <<>>, <<>>, {}, <<>>)
NoHtml == [raw |-> "", elements |-> <<>>, rewritten |-> "", patched |-> "", injected |-> ""]

\* A response: by tells a response built by the proxy from the relayed one.
Response(status, by, contentType, setCookie, location, headers, body) ==
    [status |-> status, by |-> by, contentType |-> contentType, setCookie |-> setCookie,
     location |-> location, headers |-> headers, body |-> body]

NoResponse == Response(0, "none", <<>>, <<>>, <<>>, {}, "")

\* new Response(text, { status }): a string body is given the text/plain type.
PlainResponse(text, status) ==
    Response(status, "proxy", <<"text/plain;charset=UTF-8">>, <<>>, <<>>, {}, text)

\* The fixed message of the 501 (in the source it is written in Chinese).
IllegalAccessMessage == "illegal access, the path format should be /proxy/<encoded-url>"
InvalidUrlMessage == "Invalid URL"
FetchErrorMessage == "Error fetching the target site."
DefaultTarget == "https://www.google.com"

\* Lines 16-30, the try: new URL(targetUrl) validates the target.
validatedTarget(url) ==
    IF ~ParseURL(url, NoBase).ok THEN [status |-> 400, targetUrl |-> ""]
    ELSE [status |-> 0, targetUrl |-> url]

\* decodedTarget without the test of line 20: the prefix is always added.
decodedTargetAlwaysPrefixed(decoded) ==
    IF ~decoded.ok THEN [status |-> 400, targetUrl |-> ""]
    ELSE validatedTarget("https://" \o decoded.value)

\* Lines 19-22: decoded is decodeURIComponent(encodedUrl), which may throw.
decodedTarget(decoded) ==
    IF ~decoded.ok THEN [status |-> 400, targetUrl |-> ""]
    ELSE validatedTarget(IF ~IsHttpUrl(decoded.value) THEN "https://" \o decoded.value
                         ELSE decoded.value)

\* Lines 18-27: an empty encodedUrl is falsy.
encodedTarget(encodedUrl) ==
    IF encodedUrl = "" THEN [status |-> 0, targetUrl |-> DefaultTarget]
    ELSE decodedTarget(decodeURIComponent(encodedUrl))

\* routedTarget with the test of line 10 on a prefix of the segment.
routedTargetAnyPrefix(pathSegments) ==
    IF ~StartsAt(pathSegments[2], "proxy", 1) THEN [status |-> 501, targetUrl |-> ""]
    ELSE encodedTarget(join(slice(pathSegments, 3), "/"))

\* Lines 9-15: pathSegments[1] of the source is the second element.
routedTarget(pathSegments) ==
    IF pathSegments[2] /= "proxy" THEN [status |-> 501, targetUrl |-> ""]
    ELSE encodedTarget(join(slice(pathSegments, 3), "/"))

\* Lines 6-30: the routing and the decoding of the target.
\* status is 501, 400 or 0 (go on, with the target as text).
decodeTarget(req) == routedTarget(split(ParseURL(req.url, NoBase).path, "/"))

\* const target = new URL(targetUrl)
target == ParseURL(targetUrl, NoBase)

\* url.origin of the inbound request
proxyOrigin == Origin(ParseURL(request.url, NoBase))

\* Lines 35-43: the outbound request.
modifiedRequest(req, t) ==
    [url |-> Href(t), method |-> req.method, host |-> Host(t),
     body |-> IF req.method /= "GET" /\ req.method /= "HEAD" THEN req.body ELSE <<>>,
     redirect |-> "manual"]

\* Lines 47-68: the relayed response with its headers rewritten.
modifiedResponse(resp, t, origin) ==
    Response(resp.status, "upstream", resp.contentType,
             [i \in 1..Len(resp.setCookie) |-> rewriteSetCookie(resp.setCookie[i])],
             IF resp.location /= <<>>
             THEN <<rewriteLocation(resp.location[1], t, origin)>> ELSE <<>>,
             resp.headers \ SecurityHeaders,
             HtmlText(resp.doc))

\* isHtml with the content type compared in lower case.
isHtmlAnyCase(resp) ==
    includes(toLowerCase(IF resp.contentType = <<>> THEN "" ELSE resp.contentType[1]),
             "text/html")

\* Line 70-71: the test of the content type.
isHtml(resp) ==
    includes(IF resp.contentType = <<>> THEN "" ELSE resp.contentType[1], "text/html")

Init ==
    /\ pc = "idle"
    /\ request = NoRequest
    /\ targetUrl = ""
    /\ fetches = <<>>
    /\ upstream = NoUpstream
    /\ html = NoHtml
    /\ bodyUsed = FALSE
    /\ response = NoResponse

\* The fetch event: handleRequest runs from line 5 up to the await of fetch.
HandleRequest(req) ==
    /\ pc = "idle"
    /\ request' = req
    /\ \E d \in {decodeTarget(req)} :
          IF d.status = 501
          THEN /\ response' = PlainResponse(IllegalAccessMessage, 501)
               /\ pc' = "done"
               /\ UNCHANGED <<targetUrl, fetches>>
          ELSE IF d.status = 400
          THEN /\ response' = PlainResponse(InvalidUrlMessage, 400)
               /\ pc' = "done"
               /\ UNCHANGED <<targetUrl, fetches>>
          ELSE /\ targetUrl' = d.targetUrl
               /\ fetches' = Append(fetches,
                                    modifiedRequest(req, ParseURL(d.targetUrl, NoBase)))
               /\ pc' = "fetching"
               /\ UNCHANGED response
    /\ UNCHANGED <<upstream, html, bodyUsed>>

\* fetch rejects: the catch of line 92.
FetchReject ==
    /\ pc = "fetching"
    /\ response' = PlainResponse(FetchErrorMessage, 500)
    /\ pc' = "done"
    /\ UNCHANGED <<request, targetUrl, fetches, upstream, html, bodyUsed>>

\* fetch resolves with resp: lines 47-72 and, for another content type, 91.
FetchResolve(resp) ==
    /\ pc = "fetching"
    /\ upstream' = resp
    /\ IF isHtml(resp)
       THEN /\ pc' = "reading"
            /\ UNCHANGED response
       ELSE /\ pc' = "done"
            /\ response' = modifiedResponse(resp, target, proxyOrigin)
    /\ UNCHANGED <<request, targetUrl, fetches, html, bodyUsed>>

\* The read of the upstream body fails: modifiedResponse.text() rejects,
\* inside the try of line 45.
TextReject ==
    /\ pc = "reading"
    /\ response' = PlainResponse(FetchErrorMessage, 500)
    /\ pc' = "done"
    /\ UNCHANGED <<request, targetUrl, fetches, upstream, html, bodyUsed>>

\* modifiedResponse.text() resolves: lines 72-88.  The Response constructor
\* of line 85 throws for a null body status, inside the same try.
TextResolve ==
    /\ pc = "reading"
    /\ bodyUsed' = TRUE
    /\ \E t \in {target}, o \in {proxyOrigin} :
       \E m \in {modifiedResponse(upstream, t, o)},
          elements \in {applyHTMLRewriter(upstream.doc, t)} :
       \E rewritten \in {HtmlText(elements)} :
       \E patched \in {rewriteInlineJS(rewritten, t, o)} :
       \E injected \in {injectFakeEnvScript(patched, t, o)} :
          /\ html' = [raw |-> m.body, elements |-> elements, rewritten |-> rewritten,
                      patched |-> patched, injected |-> injected]
          /\ response' = IF m.status \in NullBodyStatuses
                         THEN PlainResponse(FetchErrorMessage, 500)
                         ELSE [m EXCEPT !.body = injected]
    /\ pc' = "done"
    /\ UNCHANGED <<request, targetUrl, fetches, upstream>>

Next ==
    \/ \E req \in Requests : HandleRequest(req)
    \/ FetchReject
    \/ \E resp \in UpstreamResponses : FetchResolve(resp)
    \/ TextReject
    \/ TextResolve

Spec == Init /\ [][Next]_vars

(***************************************************************************)
(* The claims                                                              *)
(***************************************************************************)

\* The proxy's encoding of the reference rawValue resolved against t, as the
\* spec defines RewriteReference: the resolved scheme decides.
RewriteReference(rawValue, t) ==
    IF ~ParseURL(rawValue, t).ok THEN rawValue
    ELSE IF ParseURL(rawValue, t).scheme \notin {"http", "https"} THEN rawValue
    ELSE ProxyPath(Href(ParseURL(rawValue, t)))

\* The Location the spec asks for: the proxy URL of the resolved location,
\* the value itself when it does not resolve.
ExpectedLocation(location, t) ==
    IF ParseURL(location, t).ok
    THEN ProxyOrigin \o ProxyPath(Href(ParseURL(location, t)))
    ELSE location

\* An attribute of a Set-Cookie value (a part between ";") that is not Domain.
NotDomainAttribute(a) == ~StartsAtI(a, "domain=", SkipSpace(a, 1))

\* The number of quote characters of a text.
QuoteCount(s) == Cardinality({i \in 1..Len(s) : At(s, i) \in QuoteSet})

\* The script the spoofer builds for the request in hand.
SpoofScript == fakeEnvScript(Host(target), Origin(target), Protocol(target), proxyOrigin)

\* C1: a request whose first path segment is not "proxy" is answered 501
\* with the fixed plain-text message, and no outbound request is ever issued
\* for it.
C1_NonProxyPathIs501 ==
    (pc /= "idle" /\ request.url \in NonProxyRequestUrls) =>
        /\ pc = "done"
        /\ response = PlainResponse(IllegalAccessMessage, 501)
        /\ fetches = <<>>

C1_Witness ==
    /\ pc = "done"
    /\ request.url = ProxyOrigin \o "/other/thing"
    /\ response.status = 501
    /\ fetches = <<>>

\* C2: for an absolute http(s) URL u, the inbound path /proxy/<encoding of u>
\* is decoded to exactly u, and the one outbound request is sent to the URL u
\* (to the text u itself when u is in serialised form).
C2_DecodeEncodeRoundTrip ==
    \A u \in AbsoluteUrls :
        (pc /= "idle" /\ request.url = ProxyOrigin \o ProxyPath(u)) =>
            /\ targetUrl = u
            /\ Len(fetches) = 1
            /\ ParseURL(fetches[1].url, NoBase) = ParseURL(u, NoBase)
            /\ u \in SerialisedUrls => fetches[1].url = u

C2_Witness ==
    /\ pc = "fetching"
    /\ request.url = ProxyOrigin \o "/proxy/http%3A%2F%2Fexample.com%3A8080%2Fx%3Fy%3D1%26z%3D%252F%23f"
    /\ targetUrl = "http://example.com:8080/x?y=1&z=%2F#f"
    /\ fetches[1].url = "http://example.com:8080/x?y=1&z=%2F#f"

\* C3: every upstream Set-Cookie entry is relayed, in order, without any
\* Domain attribute (wherever it stands, in any letter case, however many
\* times) and with its name=value pair and every other attribute verbatim.
C3_DomainStripped ==
    (pc = "done" /\ response.by = "upstream") =>
        /\ Len(response.setCookie) = Len(upstream.setCookie)
        /\ \A i \in 1..Len(upstream.setCookie) :
              /\ ~includes(response.setCookie[i], "Domain=")
              /\ split(response.setCookie[i], ";")
                     = SelectSeq(split(upstream.setCookie[i], ";"), NotDomainAttribute)

\* C4: a quoted absolute or root-relative literal of a navigation call is
\* rewritten between its quotes only: the literal keeps exactly one opening
\* and one closing quote and the text outside it is unchanged.
C4_LiteralRewrittenInPlace ==
    bodyUsed =>
        /\ QuoteCount(html.patched) = QuoteCount(html.rewritten)
        /\ html.rewritten = "window.location = \"https://example.com/x\"" =>
              html.patched = "window.location = \"" \o ProxyOrigin
                                \o ProxyPath("https://example.com/x") \o "\""
        /\ (html.rewritten = "window.location = \"/y\"" /\ targetUrl = "https://example.com/a/") =>
              html.patched = "window.location = \"" \o ProxyOrigin
                                \o ProxyPath("https://example.com/y") \o "\""

\* C5: every HTML response the proxy returns carries the spoofing script:
\* right before the first closing head tag, or, when the document has none,
\* in front of the whole document.
C5_ScriptInjected ==
    (pc = "done" /\ bodyUsed /\ response.by = "upstream") =>
        /\ includes(response.body, SpoofScript)
        /\ HeadEndStart(html.patched, 1) = 0 => response.body = SpoofScript \o html.patched
        /\ HeadEndStart(html.patched, 1) /= 0 =>
              response.body = Before(html.patched, HeadEndStart(html.patched, 1))
                                 \o SpoofScript
                                 \o From(html.patched, HeadEndStart(html.patched, 1))

\* The content types of the model that do not contain "text/html".
NonHtmlContentTypes == {<<>>, <<"application/json">>, <<"Text/HTML">>}

\* C6: a response whose Content-Type does not contain "text/html" is passed
\* through: the upstream status and the body as it came, the body never read
\* as text and no rewriter or injection applied.
C6_NonHtmlPassesThrough ==
    (pc /= "fetching" /\ upstream /= NoUpstream /\ upstream.contentType \in NonHtmlContentTypes) =>
        /\ pc = "done"
        /\ response.by = "upstream"
        /\ response.status = upstream.status
        /\ response.contentType = upstream.contentType
        /\ response.body = HtmlText(upstream.doc)
        /\ ~bodyUsed
        /\ html = NoHtml

C6_Witness ==
    /\ pc = "done"
    /\ upstream.contentType = <<"application/json">>
    /\ upstream.doc = JsonDoc
    /\ response.status = 200
    /\ response.body = "{\"next\": \"/b/c\", \"js\": \"location.href='/y'\", \"t\": \"</head>\"}"

\* C7: every response returned after a completed upstream fetch, whatever
\* its status and content type, carries none of the three security headers,
\* carries every Set-Cookie entry without a Domain attribute and carries the
\* rewritten Location.
C7_HeadersTransformed ==
    (pc = "done" /\ upstream /= NoUpstream) =>
        /\ response.headers \cap SecurityHeaders = {}
        /\ Len(response.setCookie) = Len(upstream.setCookie)
        /\ \A i \in 1..Len(response.setCookie) :
              \A k \in 2..Len(split(response.setCookie[i], ";")) :
                  NotDomainAttribute(split(response.setCookie[i], ";")[k])
        /\ upstream.location /= <<>> =>
              response.location = <<ExpectedLocation(upstream.location[1], target)>>

\* C8: an upstream 3xx with a Location is not followed: no second outbound
\* request, and the response returned has the upstream's 3xx status and the
\* Location rewritten to the proxy URL of the resolved target (the value
\* itself when it does not resolve).
C8_RedirectRelayed ==
    /\ Len(fetches) <= 1
    /\ (pc = "done" /\ upstream.status \in 300..399 /\ upstream.location /= <<>>) =>
          /\ response.status = upstream.status
          /\ response.location = <<ExpectedLocation(upstream.location[1], target)>>

\* C9: the proxy makes a status of its own in three cases only: 501 for a
\* path outside /proxy/, 400 for a target that does not decode or parse, 500
\* for a fetch that throws (attempted once); once the fetch has completed,
\* the response keeps the upstream status.
C9_OnlyNamedErrors ==
    /\ Len(fetches) <= 1
    /\ pc = "done" =>
          /\ (response.by = "proxy" /\ response.status = 501) <=>
                 request.url \in NonProxyRequestUrls
          /\ (response.by = "proxy" /\ response.status = 400) =>
                 (fetches = <<>> /\ request.url \in OtherProxyRequestUrls)
          /\ (response.by = "proxy" /\ response.status = 500) => upstream = NoUpstream
          /\ upstream /= NoUpstream =>
                 (response.by = "upstream" /\ response.status = upstream.status)

\* C10 as stated: every attribute named by a rewrite rule on its matching tag
\* holds RewriteReference of its raw value.
C10_EveryRuleAttribute ==
    bodyUsed =>
        \A i \in 1..Len(upstream.doc) : \A r \in RewriteRules :
            (/\ upstream.doc[i].kind = "start"
             /\ upstream.doc[i].tag = r[1]
             /\ hasAttribute(upstream.doc[i], r[2])) =>
                getAttribute(html.elements[i], r[2])
                    = RewriteReference(getAttribute(upstream.doc[i], r[2]), target)

\* C10, amended: every non-empty attribute named by a rewrite rule on its
\* matching tag holds RewriteReference of its raw value (the raw value when
\* it does not resolve or resolves to another scheme than http(s), else
\* "/proxy/" and the encoding of the resolved URL); an empty one stays empty.
\* With target https://example.com/a/, "/b/c" and "//cdn.example.com/x" give
\* the encodings of https://example.com/b/c and https://cdn.example.com/x.
C10_NonEmptyRuleAttribute ==
    bodyUsed =>
        /\ \A i \in 1..Len(upstream.doc) : \A r \in RewriteRules :
              (/\ upstream.doc[i].kind = "start"
               /\ upstream.doc[i].tag = r[1]
               /\ hasAttribute(upstream.doc[i], r[2])) =>
                  getAttribute(html.elements[i], r[2])
                      = IF getAttribute(upstream.doc[i], r[2]) = "" THEN ""
                        ELSE RewriteReference(getAttribute(upstream.doc[i], r[2]), target)
        /\ (upstream.doc = HeadDoc /\ targetUrl = "https://example.com/a/") =>
              /\ html.elements[7].attrs = <<Attr("href", "/proxy/https%3A%2F%2Fexample.com%2Fb%2Fc")>>
              /\ html.elements[10].attrs = <<Attr("src", "/proxy/https%3A%2F%2Fcdn.example.com%2Fx")>>
              /\ html.elements[11].attrs = <<Attr("href", "mailto:a@b.com")>>

C10_Witness ==
    /\ bodyUsed
    /\ upstream.doc = HeadDoc
    /\ targetUrl = "https://example.com/a/"
    /\ getAttribute(html.elements[7], "href") = "/proxy/https%3A%2F%2Fexample.com%2Fb%2Fc"

=============================================================================
